---- MODULE Spec2Model ----
(***************************************************************************)
(* Wallet ledger, tournament registration, settlement and payment intake   *)
(* of the tournament platform backend (backend/app).                       *)
(*                                                                         *)
(* The database is the state: the wallets, transactions, registrations and *)
(* tournaments tables.  A request handler that runs alone is one action.   *)
(* Handlers that run side by side are modelled session by session in the   *)
(* second half of the module (SpecConc).                                   *)
(*                                                                         *)
(* Nullable columns: an Optional integer is <<>> (None) or <<v>>; an       *)
(* Optional user or tournament reference is the string "none" or the key.  *)
(* Timestamps are modelled by whether they are set.  Money is in whole     *)
(* rupees; a Numeric(10, 2) column read from the database is a Decimal,    *)
(* and a Python number handed to the wallet carries its type (PyInt,       *)
(* PyFloat), because Decimal + float raises TypeError.                     *)
(***************************************************************************)
EXTENDS Integers, Sequences, FiniteSets, TLC

VARIABLES
    wallets,        \* user -> Wallet row
    transactions,   \* sequence of Transaction rows; a row's id is its index
    registrations,  \* sequence of Registration rows; a row's id is its index
    tournaments,    \* tournament -> Tournament row
    response,       \* the last request handled and its outcome
    initiating,     \* purchase transactions whose initiate_payment call awaits the gateway
    sessions        \* per request in flight: its position and its session's objects

vars == <<wallets, transactions, registrations, tournaments, response,
          initiating, sessions>>

(***************************************************************************)
(* Bounds of the model                                                     *)
(***************************************************************************)
MaxTx == 2          \* Transaction rows
MaxBalance == 2000  \* a step is not explored once a token class would exceed it
MaxDebt == 100      \* nor once a token class would fall below -MaxDebt
MaxAmount == 40     \* balances and amounts of the single-debit specification
MaxRewards == 2     \* tournament_reward Transactions
MaxTokens == 3      \* balances of the transfer specification

Users == {"u1", "u2"}
Tournaments == {"t1", "t2"}
Sessions == {"s1", "s2"}

None == <<>>
Some(v) == <<v>>

Max(a, b) == IF a >= b THEN a ELSE b

\* Python numbers whose type matters: an int, a float
PyInt(v) == [type |-> "int", value |-> v]
PyFloat(v) == [type |-> "float", value |-> v]

(***************************************************************************)
(* models/wallet.py                                                        *)
(***************************************************************************)
NewWallet(v, r) ==
    [virtual_tokens |-> v, reward_tokens |-> r, total_spent_pkr |-> 0,
     total_tokens_purchased |-> 0, total_tokens_earned |-> 0,
     total_tokens_spent |-> 0]

total_balance(w) == w.virtual_tokens + w.reward_tokens

\* faulty variant: the balance check always passes
has_sufficient_balance_unchecked(w, amount) == TRUE

\* faulty variant: the balance must exceed the amount
has_sufficient_balance_strict(w, amount) == total_balance(w) > amount

has_sufficient_balance(w, amount) == total_balance(w) >= amount

\* faulty variant: the policy flag is read the wrong way round
deduct_tokens_flipped(w, amount, use_reward_first) ==
    IF ~has_sufficient_balance(w, amount) THEN w
    ELSE LET d == IF ~use_reward_first
                  THEN IF w.reward_tokens >= amount
                       THEN [w EXCEPT !.reward_tokens = @ - amount]
                       ELSE LET remaining == amount - w.reward_tokens
                            IN  [w EXCEPT !.reward_tokens = 0,
                                          !.virtual_tokens = @ - remaining]
                  ELSE IF w.virtual_tokens >= amount
                       THEN [w EXCEPT !.virtual_tokens = @ - amount]
                       ELSE LET remaining == amount - w.virtual_tokens
                            IN  [w EXCEPT !.virtual_tokens = 0,
                                          !.reward_tokens = @ - remaining]
         IN  [d EXCEPT !.total_tokens_spent = @ + amount]

\* faulty variant: the first class is not split, the whole amount is taken from it
deduct_tokens_unsplit(w, amount, use_reward_first) ==
    IF ~has_sufficient_balance(w, amount) THEN w
    ELSE LET d == IF use_reward_first
                  THEN [w EXCEPT !.reward_tokens = @ - amount]
                  ELSE [w EXCEPT !.virtual_tokens = @ - amount]
         IN  [d EXCEPT !.total_tokens_spent = @ + amount]

\* Wallet.deduct_tokens: the wallet after the call (unchanged when it returns False)
deduct_tokens(w, amount, use_reward_first) ==
    IF ~has_sufficient_balance(w, amount) THEN w
    ELSE LET d == IF use_reward_first
                  THEN IF w.reward_tokens >= amount
                       THEN [w EXCEPT !.reward_tokens = @ - amount]
                       ELSE LET remaining == amount - w.reward_tokens
                            IN  [w EXCEPT !.reward_tokens = 0,
                                          !.virtual_tokens = @ - remaining]
                  ELSE IF w.virtual_tokens >= amount
                       THEN [w EXCEPT !.virtual_tokens = @ - amount]
                       ELSE LET remaining == amount - w.virtual_tokens
                            IN  [w EXCEPT !.virtual_tokens = 0,
                                          !.reward_tokens = @ - remaining]
         IN  [d EXCEPT !.total_tokens_spent = @ + amount]

\* Wallet.deduct_tokens: its return value
deduct_tokens_ok(w, amount) == has_sufficient_balance(w, amount)

\* faulty variant: the sum of a Decimal and a float is taken
add_virtual_tokens_accepts(amount_pkr) == FALSE

\* Wallet.add_virtual_tokens raises: total_spent_pkr (Numeric, a Decimal once
\* the row is loaded) += amount_pkr is a TypeError when amount_pkr is a float
add_virtual_tokens_raises(amount_pkr) == amount_pkr.type = "float"

\* Wallet.add_virtual_tokens: the wallet after a call that returns
add_virtual_tokens(w, amount, amount_pkr) ==
    [w EXCEPT !.virtual_tokens = @ + amount,
              !.total_tokens_purchased = @ + amount,
              !.total_spent_pkr = @ + amount_pkr.value]

\* faulty variant: the reward is credited to the purchased class
add_reward_tokens_purchased(w, amount) ==
    [w EXCEPT !.virtual_tokens = @ + amount,
              !.total_tokens_earned = @ + amount]

add_reward_tokens(w, amount) ==
    [w EXCEPT !.reward_tokens = @ + amount,
              !.total_tokens_earned = @ + amount]

(***************************************************************************)
(* Rows                                                                    *)
(***************************************************************************)
\* models/transaction.py: a Transaction with the column defaults
NewTransaction(user, type, status, amount) ==
    [user_id |-> user, type |-> type, status |-> status,
     token_amount |-> amount, token_type |-> "virtual",
     amount_pkr |-> None, payment_reference |-> "none",
     external_transaction_id |-> "none",
     tournament_id |-> "none", recipient_user_id |-> "none",
     sender_user_id |-> "none", notes |-> "none",
     balance_before |-> None, balance_after |-> None,
     completed_at |-> FALSE]

\* faulty variant: the row keeps a status that is not completed
mark_completed_pending(tx) == [tx EXCEPT !.status = "pending", !.completed_at = TRUE]

\* Transaction.mark_completed
mark_completed(tx) == [tx EXCEPT !.status = "completed", !.completed_at = TRUE]

\* models/registration.py: a Registration with the column defaults
NewRegistration(user, t, fee, status) ==
    [user_id |-> user, tournament_id |-> t, status |-> status,
     tokens_paid |-> fee, transaction_id |-> None, position |-> None,
     reward_earned |-> 0, reward_transaction_id |-> None,
     checked_in |-> FALSE]

\* models/tournament.py: the tournaments the administrator has created
NewTournament(fee, cap, first, second) ==
    [status |-> "registration_open", entry_fee |-> fee,
     max_participants |-> cap, current_participants |-> 0,
     first_place_reward |-> first, second_place_reward |-> second,
     third_place_reward |-> 0, fourth_place_reward |-> 0,
     fifth_place_reward |-> 0]

\* Tournament.is_registration_open; inWindow: now is within the registration
\* window (or the window is not set)
is_registration_open(trn, inWindow) ==
    /\ trn.status = "registration_open"
    /\ inWindow
    /\ ~(trn.current_participants >= trn.max_participants)

\* models/tournament.py: TokenBundle rows (name -> row) and TokenBundle.total_tokens
Bundles ==
    [value_pack |-> [tokens |-> 500, bonus_tokens |-> 50, price_pkr |-> 5039]]

total_tokens(b) == b.tokens + b.bonus_tokens

\* a session before its request: nothing loaded
Idle ==
    [pc |-> "idle", user |-> "none", tournament |-> "none", result |-> "none",
     trn |-> None, loaded |-> None, wallet |-> None, tx |-> 0,
     recipient |-> "none", amount |-> 0, loaded_recipient |-> None]

NoResponse ==
    [op |-> "none", result |-> "none", user |-> "none", tournament |-> "none",
     tx |-> 0, in_window |-> TRUE, amount |-> 0, reward_first |-> FALSE,
     before |-> None, code |-> "none", recipient |-> "none",
     token_type |-> "none"]

Reply(op, result, user, t, tx) ==
    [NoResponse EXCEPT !.op = op, !.result = result, !.user = user,
                       !.tournament = t, !.tx = tx]

\* the reply to a registration request, with whether it came within the window
RegisterReply(op, result, user, t, tx, inWindow) ==
    [Reply(op, result, user, t, tx) EXCEPT !.in_window = inWindow]

TxIds == 1..Len(transactions)
RegIds == 1..Len(registrations)

(***************************************************************************)
(* The database after setup.  routers/auth.py creates the wallet with the  *)
(* user: u1 came through dev_login (test tokens, no Transaction), u2       *)
(* through the Google callback (zero balances).  Two tournaments are open. *)
(***************************************************************************)
DevVirtualTokens == 500
DevRewardTokens == 100

InitWallets ==
    [u \in Users |-> IF u = "u1" THEN NewWallet(DevVirtualTokens, DevRewardTokens)
                                 ELSE NewWallet(0, 0)]

InitTournaments ==
    [t \in Tournaments |-> IF t = "t1" THEN NewTournament(50, 2, 200, 100)
                                       ELSE NewTournament(550, 1, 100, 0)]

Init ==
    /\ wallets = InitWallets
    /\ transactions = <<>>
    /\ registrations = <<>>
    /\ tournaments = InitTournaments
    /\ response = NoResponse
    /\ initiating = {}
    /\ sessions = [s \in Sessions |-> Idle]

\* the model explores a step only while the tables stay within the bounds
WithinBounds(ws, txs) ==
    /\ Len(txs) <= MaxTx
    /\ \A u \in Users : /\ ws[u].virtual_tokens \in -MaxDebt..MaxBalance
                        /\ ws[u].reward_tokens \in -MaxDebt..MaxBalance

\* the same for a settlement, bounded by the reward Transactions written
WithinSettlementBounds(ws, txs) ==
    /\ Cardinality({i \in 1..Len(txs) : txs[i].type = "tournament_reward"})
           <= MaxRewards
    /\ \A u \in Users : /\ ws[u].virtual_tokens \in -MaxDebt..MaxBalance
                        /\ ws[u].reward_tokens \in -MaxDebt..MaxBalance

Rejected(reply) ==
    /\ response' = reply
    /\ UNCHANGED <<wallets, transactions, registrations, tournaments,
                   initiating, sessions>>

(***************************************************************************)
(* routers/tournaments.py: POST /{tournament_id}/register                  *)
(***************************************************************************)
\* faulty variant: the status comparison is inverted
existing_registrations_inverted(regs, u, t) ==
    {i \in 1..Len(regs) : /\ regs[i].user_id = u
                          /\ regs[i].tournament_id = t
                          /\ regs[i].status = "cancelled"}

\* the non-cancelled registrations of (user, tournament)
existing_registrations(regs, u, t) ==
    {i \in 1..Len(regs) : /\ regs[i].user_id = u
                          /\ regs[i].tournament_id = t
                          /\ regs[i].status # "cancelled"}

register_for_tournament(u, t, inWindow) ==
    LET trn == tournaments[t]
        wallet == wallets[u]
        fee == trn.entry_fee
        balance_before == total_balance(wallet)
        debited == deduct_tokens(wallet, fee, FALSE)
        txid == Len(transactions) + 1
        transaction ==
            mark_completed(
                [NewTransaction(u, "tournament_entry", "completed", fee)
                    EXCEPT !.tournament_id = t,
                           !.balance_before = Some(balance_before),
                           !.balance_after = Some(total_balance(debited))])
        registration ==
            [NewRegistration(u, t, fee, "confirmed")
                EXCEPT !.transaction_id = Some(txid)]
    IN  IF ~is_registration_open(trn, inWindow)
        THEN Rejected(RegisterReply("register", "registration_closed", u, t, 0, inWindow))
        ELSE IF existing_registrations(registrations, u, t) # {}
        THEN Rejected(RegisterReply("register", "already_registered", u, t, 0, inWindow))
        ELSE IF ~has_sufficient_balance(wallet, fee)
        THEN Rejected(RegisterReply("register", "insufficient_balance", u, t, 0, inWindow))
        ELSE /\ wallets' = [wallets EXCEPT ![u] = debited]
             /\ registrations' = Append(registrations, registration)
             /\ tournaments' = [tournaments EXCEPT
                                   ![t].current_participants = @ + 1]
             /\ transactions' = Append(transactions, transaction)
             /\ WithinBounds(wallets', transactions')
             /\ response' = RegisterReply("register", "ok", u, t, txid, inWindow)
             /\ UNCHANGED <<initiating, sessions>>

Register == \E u \in Users, t \in Tournaments, inWindow \in BOOLEAN :
                register_for_tournament(u, t, inWindow)

(***************************************************************************)
(* services/wallet_service.py: WalletService.deduct_tokens                 *)
(***************************************************************************)
service_deduct_ok(wallet, amount) == has_sufficient_balance(wallet, amount)

service_deduct_tx(u, wallet, amount, type, t) ==
    mark_completed(
        [NewTransaction(u, type, "completed", amount)
            EXCEPT !.tournament_id = t,
                   !.balance_before = Some(total_balance(wallet)),
                   !.balance_after =
                       Some(total_balance(deduct_tokens(wallet, amount, FALSE)))])

(***************************************************************************)
(* services/tournament_service.py: TournamentService.register_user         *)
(***************************************************************************)
register_user(u, t, inWindow) ==
    LET trn == tournaments[t]
        wallet == wallets[u]
        fee == trn.entry_fee
        txid == Len(transactions) + 1
        registration ==
            [NewRegistration(u, t, fee, "confirmed")
                EXCEPT !.transaction_id = Some(txid)]
    IN  IF ~is_registration_open(trn, inWindow)
        THEN Rejected(RegisterReply("register_user", "registration_closed", u, t, 0, inWindow))
        ELSE IF existing_registrations(registrations, u, t) # {}
        THEN Rejected(RegisterReply("register_user", "already_registered", u, t, 0, inWindow))
        ELSE IF ~service_deduct_ok(wallet, fee)
        THEN Rejected(RegisterReply("register_user", "insufficient_balance", u, t, 0, inWindow))
        ELSE /\ wallets' = [wallets EXCEPT ![u] = deduct_tokens(wallet, fee, FALSE)]
             /\ transactions' =
                    Append(transactions,
                           service_deduct_tx(u, wallet, fee, "tournament_entry", t))
             /\ registrations' = Append(registrations, registration)
             /\ tournaments' = [tournaments EXCEPT
                                   ![t].current_participants = @ + 1]
             /\ WithinBounds(wallets', transactions')
             /\ response' = RegisterReply("register_user", "ok", u, t, txid, inWindow)
             /\ UNCHANGED <<initiating, sessions>>

ServiceRegister == \E u \in Users, t \in Tournaments, inWindow \in BOOLEAN :
                       register_user(u, t, inWindow)

(***************************************************************************)
(* routers/payments.py: POST /initiate.  The handler commits the pending   *)
(* Transaction, awaits the gateway, and then writes processing or failed.  *)
(***************************************************************************)
initiate_payment(u, b) ==
    LET bundle == Bundles[b]
        wallet == wallets[u]
        txid == Len(transactions) + 1
        transaction ==
            [NewTransaction(u, "purchase", "pending", total_tokens(bundle))
                EXCEPT !.amount_pkr = Some(bundle.price_pkr),
                       !.balance_before = Some(total_balance(wallet))]
    IN  /\ transactions' = Append(transactions, transaction)
        /\ WithinBounds(wallets, transactions')
        /\ initiating' = initiating \cup {txid}
        /\ response' = Reply("initiate_payment", "pending", u, "none", txid)
        /\ UNCHANGED <<wallets, registrations, tournaments, sessions>>

InitiatePayment == \E u \in Users, b \in DOMAIN Bundles : initiate_payment(u, b)

\* the gateway call returned (sent) or raised
initiate_payment_result(txid, sent) ==
    /\ txid \in initiating
    /\ initiating' = initiating \ {txid}
    /\ transactions' =
           [transactions EXCEPT ![txid] =
               IF sent THEN [@ EXCEPT !.external_transaction_id = "external_id",
                                      !.status = "processing"]
                       ELSE [@ EXCEPT !.status = "failed", !.notes = "exception"]]
    /\ response' = Reply("initiate_payment", IF sent THEN "processing" ELSE "error",
                         transactions[txid].user_id, "none", txid)
    /\ UNCHANGED <<wallets, registrations, tournaments, sessions>>

InitiatePaymentResult == \E txid \in initiating, sent \in BOOLEAN :
                             initiate_payment_result(txid, sent)

(***************************************************************************)
(* routers/payments.py: POST /easypaisa/callback, POST /jazzcash/callback. *)
(* orderId is a Transaction id or names no row (0); code is the gateway's  *)
(* status: "success" is "0000" (Easypaisa) or "000" (JazzCash), "failure"  *)
(* any other code, "malformed" a body the request schema rejects.  The     *)
(* whole handler is inside try/except Exception: an exception is answered  *)
(* {"status": "error"} and the session closes without a commit.            *)
(***************************************************************************)
CallbackReply(op, result, u, orderId, code) ==
    [Reply(op, result, u, "none", orderId) EXCEPT !.code = code]

gateway_callback(op, orderId, code) ==
    IF code = "malformed"
    THEN Rejected(CallbackReply(op, "error", "none", orderId, code))
    ELSE IF orderId \notin TxIds
    THEN Rejected(CallbackReply(op, "not_found", "none", orderId, code))
    ELSE LET transaction == transactions[orderId]
             u == transaction.user_id
             \* float(transaction.amount_pkr or 0)
             amount_pkr == PyFloat(IF transaction.amount_pkr = None THEN 0
                                   ELSE transaction.amount_pkr[1])
             credited == add_virtual_tokens(wallets[u], transaction.token_amount,
                                            amount_pkr)
         IN  IF code = "success"
             THEN IF add_virtual_tokens_raises(amount_pkr)
                  THEN Rejected(CallbackReply(op, "error", u, orderId, code))
                  ELSE /\ wallets' = [wallets EXCEPT ![u] = credited]
                       /\ transactions' =
                              [transactions EXCEPT ![orderId] =
                                  [@ EXCEPT !.status = "completed",
                                            !.payment_reference = "ref",
                                            !.completed_at = TRUE,
                                            !.balance_after =
                                                Some(total_balance(credited))]]
                       /\ WithinBounds(wallets', transactions')
                       /\ response' = CallbackReply(op, "success", u, orderId, code)
                       /\ UNCHANGED <<registrations, tournaments, initiating, sessions>>
             ELSE /\ transactions' =
                         [transactions EXCEPT ![orderId] =
                             [@ EXCEPT !.status = "failed", !.notes = "gateway"]]
                  /\ response' = CallbackReply(op, "failed", u, orderId, code)
                  /\ UNCHANGED <<wallets, registrations, tournaments,
                                 initiating, sessions>>

CallbackCodes == {"success", "failure", "malformed"}

\* hashKey (Easypaisa) and pp_SecureHash (JazzCash) are optional fields of
\* the request: the gateway's hash of the body, any other string, or absent
Signatures == {"valid", "invalid", "missing"}

\* services/payment_service.py: PaymentService.verify_easypaisa_callback and
\* verify_jazzcash_callback (no handler calls them)
verify_easypaisa_callback(hashKey) == hashKey = "valid"

verify_jazzcash_callback(pp_SecureHash) == pp_SecureHash = "valid"

easypaisa_callback(orderId, code, hashKey) ==
    gateway_callback("easypaisa_callback", orderId, code)

jazzcash_callback(orderId, code, pp_SecureHash) ==
    gateway_callback("jazzcash_callback", orderId, code)

EasypaisaCallback ==
    \E orderId \in TxIds \cup {0}, code \in CallbackCodes, hashKey \in Signatures :
        easypaisa_callback(orderId, code, hashKey)

JazzcashCallback ==
    \E orderId \in TxIds \cup {0}, code \in CallbackCodes,
       pp_SecureHash \in Signatures :
        jazzcash_callback(orderId, code, pp_SecureHash)

(***************************************************************************)
(* services/wallet_service.py: WalletService.add_tokens.  An exception     *)
(* leaves the method before its commit.                                    *)
(***************************************************************************)
ServiceAmounts == {550}
ServicePkr == {PyInt(0), PyFloat(5039)}

add_tokens(u, amount, token_type, amount_pkr, transaction_type) ==
    LET wallet == wallets[u]
        credited == IF token_type = "virtual"
                    THEN add_virtual_tokens(wallet, amount, amount_pkr)
                    ELSE add_reward_tokens(wallet, amount)
        txid == Len(transactions) + 1
        transaction ==
            mark_completed(
                [NewTransaction(u, transaction_type, "completed", amount)
                    EXCEPT !.token_type = token_type,
                           !.amount_pkr = IF amount_pkr.value # 0
                                          THEN Some(amount_pkr.value) ELSE None,
                           !.balance_before = Some(total_balance(wallet)),
                           !.balance_after = Some(total_balance(credited))])
    IN  IF token_type = "virtual" /\ add_virtual_tokens_raises(amount_pkr)
        THEN Rejected(Reply("add_tokens_service", "error", u, "none", 0))
        ELSE /\ wallets' = [wallets EXCEPT ![u] = credited]
             /\ transactions' = Append(transactions, transaction)
             /\ WithinBounds(wallets', transactions')
             /\ response' = Reply("add_tokens_service", "ok", u, "none", txid)
             /\ UNCHANGED <<registrations, tournaments, initiating, sessions>>

ServiceAddTokens ==
    \E u \in Users, amount \in ServiceAmounts, token_type \in {"virtual", "reward"},
       amount_pkr \in ServicePkr :
        add_tokens(u, amount, token_type, amount_pkr, "purchase")

(***************************************************************************)
(* routers/admin.py: POST /wallets/{user_id}/add-tokens                    *)
(***************************************************************************)
AdminAmounts == {-50, 100}
TokenTypes == {"virtual", "reward"}

add_tokens_to_wallet(u, amount, token_type) ==
    LET wallet == wallets[u]
        tx == mark_completed(
                  [NewTransaction(u, "bonus", "completed", amount)
                      EXCEPT !.token_type = token_type, !.notes = "admin"])
    IN  /\ wallets' = [wallets EXCEPT ![u] =
                          IF token_type = "virtual"
                          THEN [wallet EXCEPT !.virtual_tokens = @ + amount]
                          ELSE [wallet EXCEPT !.reward_tokens = @ + amount]]
        /\ transactions' = Append(transactions, tx)
        /\ WithinBounds(wallets', transactions')
        /\ response' = Reply("add_tokens", "ok", u, "none",
                             Len(transactions) + 1)
        /\ UNCHANGED <<registrations, tournaments, initiating, sessions>>

AdminAddTokens == \E u \in Users, amount \in AdminAmounts, token_type \in TokenTypes :
                      add_tokens_to_wallet(u, amount, token_type)

(***************************************************************************)
(* routers/wallets.py: POST /transfer (amount >= 1 by the request schema)  *)
(***************************************************************************)
TransferAmounts == {100, 200}

\* the reply to a transfer request, with the request's fields
TransferReply(op, result, sender, recipient, tx, amount, token_type) ==
    [Reply(op, result, sender, "none", tx)
        EXCEPT !.recipient = recipient, !.amount = amount,
               !.token_type = token_type]

\* faulty variant: every token class may be transferred
transferable_any(token_type) == TRUE

\* the token classes a transfer accepts (token_type != "reward" is refused)
transferable(token_type) == token_type = "reward"

transfer_tokens(sender, recipient, amount, token_type) ==
    LET sender_wallet == wallets[sender]
        recipient_wallet == wallets[recipient]
        sender_after == [sender_wallet EXCEPT !.reward_tokens = @ - amount]
        recipient_after == [recipient_wallet EXCEPT !.reward_tokens = @ + amount]
        txid == Len(transactions) + 1
        sender_transaction ==
            mark_completed(
                [NewTransaction(sender, "transfer_out", "completed", amount)
                    EXCEPT !.token_type = "reward",
                           !.recipient_user_id = recipient,
                           !.balance_before = Some(total_balance(sender_wallet)),
                           !.balance_after = Some(total_balance(sender_after))])
        recipient_transaction ==
            mark_completed(
                [NewTransaction(recipient, "transfer_in", "completed", amount)
                    EXCEPT !.token_type = "reward",
                           !.sender_user_id = sender,
                           !.balance_before = Some(total_balance(recipient_wallet)),
                           !.balance_after = Some(total_balance(recipient_after))])
    IN  IF recipient = sender
        THEN Rejected(TransferReply("transfer", "self_transfer", sender, recipient,
                                    0, amount, token_type))
        ELSE IF ~transferable(token_type)
        THEN Rejected(TransferReply("transfer", "transfer_restricted", sender,
                                    recipient, 0, amount, token_type))
        ELSE IF sender_wallet.reward_tokens < amount
        THEN Rejected(TransferReply("transfer", "insufficient_balance", sender,
                                    recipient, 0, amount, token_type))
        ELSE /\ wallets' = [wallets EXCEPT ![sender] = sender_after,
                                           ![recipient] = recipient_after]
             /\ transactions' = transactions \o
                                <<sender_transaction, recipient_transaction>>
             /\ WithinBounds(wallets', transactions')
             /\ response' = TransferReply("transfer", "ok", sender, recipient, txid,
                                          amount, token_type)
             /\ UNCHANGED <<registrations, tournaments, initiating, sessions>>

Transfer == \E sender \in Users, recipient \in Users, amount \in TransferAmounts,
               token_type \in TokenTypes :
               transfer_tokens(sender, recipient, amount, token_type)

(***************************************************************************)
(* services/wallet_service.py: WalletService.transfer_tokens.  The method  *)
(* validates neither the amount nor that the two users differ; when they   *)
(* are the same user both names denote the one Wallet object of the        *)
(* session.  Both Transactions are built after both balance updates.       *)
(***************************************************************************)
service_transfer_tokens(sender, recipient, amount, token_type) ==
    LET sender_wallet == wallets[sender]
        recipient_wallet == wallets[recipient]
        debited == [wallets EXCEPT ![sender].reward_tokens = @ - amount]
        after == [debited EXCEPT ![recipient].reward_tokens = @ + amount]
        txid == Len(transactions) + 1
        sender_tx ==
            mark_completed(
                [NewTransaction(sender, "transfer_out", "completed", amount)
                    EXCEPT !.token_type = "reward",
                           !.recipient_user_id = recipient,
                           !.balance_before = Some(total_balance(sender_wallet)),
                           !.balance_after = Some(total_balance(after[sender]))])
        recipient_tx ==
            mark_completed(
                [NewTransaction(recipient, "transfer_in", "completed", amount)
                    EXCEPT !.token_type = "reward",
                           !.sender_user_id = sender,
                           !.balance_before = Some(total_balance(recipient_wallet)),
                           !.balance_after = Some(total_balance(after[recipient]))])
    IN  IF ~transferable(token_type)
        THEN Rejected(TransferReply("service_transfer", "transfer_restricted",
                                    sender, recipient, 0, amount, token_type))
        ELSE IF sender_wallet.reward_tokens < amount
        THEN Rejected(TransferReply("service_transfer", "insufficient_balance",
                                    sender, recipient, 0, amount, token_type))
        ELSE /\ wallets' = after
             /\ transactions' = transactions \o <<sender_tx, recipient_tx>>
             /\ WithinBounds(wallets', transactions')
             /\ response' = TransferReply("service_transfer", "ok", sender,
                                          recipient, txid, amount, token_type)
             /\ UNCHANGED <<registrations, tournaments, initiating, sessions>>

(***************************************************************************)
(* routers/admin.py: POST /tournaments/{tournament_id}/complete.           *)
(* winners is the request's dict: the (place, user) items in the order the *)
(* request body gives them, each place at most once; each item is          *)
(* processed on the tables the items before it left.                       *)
(***************************************************************************)
PlaceOrder == <<"1st", "2nd", "3rd", "4th", "5th">>
WinnerPlaces == {"1st", "2nd"}

\* the rewards dict of complete_tournament
rewards(trn) ==
    [place \in {PlaceOrder[i] : i \in 1..Len(PlaceOrder)} |->
        CASE place = "1st" -> trn.first_place_reward
          [] place = "2nd" -> trn.second_place_reward
          [] place = "3rd" -> trn.third_place_reward
          [] place = "4th" -> trn.fourth_place_reward
          [] OTHER -> trn.fifth_place_reward]

\* int(place[0])
place_number(place) == CHOOSE i \in 1..Len(PlaceOrder) : PlaceOrder[i] = place

\* the row db.query(Registration).filter(tournament, user).first() returns
first_registration(regs, u, t) ==
    LET found == {i \in 1..Len(regs) : /\ regs[i].tournament_id = t
                                       /\ regs[i].user_id = u}
    IN  IF found = {} THEN 0
        ELSE CHOOSE i \in found : \A j \in found : i <= j

\* the body of the loop over winners.items(), on the session's tables db
reward_place(db, t, place, u) ==
    LET reward == rewards(tournaments[t])[place]
        reg == first_registration(db.registrations, u, t)
        tx == mark_completed(
                  [NewTransaction(u, "tournament_reward", "completed", reward)
                      EXCEPT !.token_type = "reward", !.tournament_id = t])
    IN  IF reward > 0
        THEN [wallets |-> [db.wallets EXCEPT ![u] = add_reward_tokens(@, reward)],
              registrations |->
                  IF reg = 0 THEN db.registrations
                  ELSE [db.registrations EXCEPT
                           ![reg].position = Some(place_number(place)),
                           ![reg].reward_earned = reward],
              transactions |-> Append(db.transactions, tx)]
        ELSE db

RECURSIVE reward_places(_, _, _, _)
reward_places(db, t, winners, i) ==
    IF i > Len(winners) THEN db
    ELSE reward_places(reward_place(db, t, winners[i].place, winners[i].user),
                       t, winners, i + 1)

complete_tournament(t, winners) ==
    LET db == reward_places([wallets |-> wallets, registrations |-> registrations,
                             transactions |-> transactions], t, winners, 1)
    IN  /\ tournaments' = [tournaments EXCEPT ![t].status = "completed"]
        /\ wallets' = db.wallets
        /\ registrations' = db.registrations
        /\ transactions' = db.transactions
        /\ WithinSettlementBounds(wallets', transactions')
        /\ response' = Reply("complete_tournament", "ok", "none", t, 0)
        /\ UNCHANGED <<initiating, sessions>>

\* the dicts over WinnerPlaces: the sequences of items with distinct places
WinnerItems == [place : WinnerPlaces, user : Users]

WinnerMaps ==
    {<<>>} \cup {<<a>> : a \in WinnerItems}
           \cup {w \in WinnerItems \X WinnerItems : w[1].place # w[2].place}

CompleteTournament == \E t \in Tournaments, winners \in WinnerMaps :
                          /\ complete_tournament(t, winners)
                          /\ Len(transactions') <= MaxTx

(***************************************************************************)
(* services/tournament_service.py: TournamentService.distribute_rewards.   *)
(* results is the caller's list of {user_id, position, reward}; the reward *)
(* is the caller's number, not the tournament's.  WalletService.add_tokens *)
(* commits inside the loop; run alone, the method ends with every result   *)
(* processed and the tournament completed.                                 *)
(***************************************************************************)
\* the body of the loop over results, on the session's tables db
distribute_result(db, t, result) ==
    LET u == result.user_id
        reg == first_registration(db.registrations, u, t)
        wallet == db.wallets[u]
        credited == add_reward_tokens(wallet, result.reward)
        txid == Len(db.transactions) + 1
        transaction ==
            mark_completed(
                [NewTransaction(u, "tournament_reward", "completed", result.reward)
                    EXCEPT !.token_type = "reward",
                           !.balance_before = Some(total_balance(wallet)),
                           !.balance_after = Some(total_balance(credited))])
    IN  IF reg = 0 THEN db
        ELSE IF result.reward > 0
        THEN [wallets |-> [db.wallets EXCEPT ![u] = credited],
              registrations |->
                  [db.registrations EXCEPT
                      ![reg].position = Some(result.position),
                      ![reg].reward_earned = result.reward,
                      ![reg].reward_transaction_id = Some(txid)],
              transactions |-> Append(db.transactions, transaction)]
        ELSE [db EXCEPT !.registrations =
                 [@ EXCEPT ![reg].position = Some(result.position),
                           ![reg].reward_earned = result.reward]]

RECURSIVE distribute_results(_, _, _, _)
distribute_results(db, t, results, i) ==
    IF i > Len(results) THEN db
    ELSE distribute_results(distribute_result(db, t, results[i]), t, results, i + 1)

distribute_rewards(t, results) ==
    LET db == distribute_results([wallets |-> wallets,
                                  registrations |-> registrations,
                                  transactions |-> transactions], t, results, 1)
    IN  /\ tournaments' = [tournaments EXCEPT ![t].status = "completed"]
        /\ wallets' = db.wallets
        /\ registrations' = db.registrations
        /\ transactions' = db.transactions
        /\ WithinSettlementBounds(wallets', transactions')
        /\ response' = Reply("distribute_rewards", "ok", "none", t, 0)
        /\ UNCHANGED <<initiating, sessions>>

ResultRewards == {0, 200}
ResultItems == [user_id : Users, position : 1..2, reward : ResultRewards]
ResultLists == {<<>>} \cup {<<a>> : a \in ResultItems}
                      \cup (ResultItems \X ResultItems)

DistributeRewards == \E t \in Tournaments, results \in ResultLists :
                         distribute_rewards(t, results)

(***************************************************************************)
(* Requests handled one at a time.  Spec: the wallet, registration,        *)
(* transfer and settlement handlers, which finish in one database          *)
(* transaction.  SpecPay: payment intake, whose Transactions change after  *)
(* they are written, and the wallet service's credit.                      *)
(***************************************************************************)
Next ==
    \/ Register
    \/ ServiceRegister
    \/ AdminAddTokens
    \/ Transfer
    \/ CompleteTournament

Spec == Init /\ [][Next]_vars

NextPay ==
    \/ InitiatePayment
    \/ InitiatePaymentResult
    \/ EasypaisaCallback
    \/ JazzcashCallback
    \/ ServiceAddTokens

SpecPay == Init /\ [][NextPay]_vars

\* the gateway callbacks beside the handlers that write ledger rows of other
\* kinds: orderId may name any Transaction
NextCallback ==
    \/ Register
    \/ AdminAddTokens
    \/ EasypaisaCallback
    \/ JazzcashCallback

SpecCallback == Init /\ [][NextCallback]_vars

(***************************************************************************)
(* A single debit on a wallet of any balances up to MaxAmount: the model   *)
(* method Wallet.deduct_tokens under either policy (the caller commits),   *)
(* or WalletService.deduct_tokens, which also writes the Transaction.      *)
(***************************************************************************)
DebitAmounts == -1..MaxAmount

\* the reply to a debit, with the amount, the policy and the wallet before it
DebitReply(op, ok, u, amount, use_reward_first, wallet) ==
    [Reply(op, IF ok THEN "ok" ELSE "insufficient_balance", u, "none", 0)
        EXCEPT !.amount = amount, !.reward_first = use_reward_first,
               !.before = Some(wallet)]

WalletDeduct ==
    \E u \in Users, amount \in DebitAmounts, use_reward_first \in BOOLEAN :
        /\ response = NoResponse
        /\ wallets' = [wallets EXCEPT
                          ![u] = deduct_tokens(@, amount, use_reward_first)]
        /\ response' = DebitReply("wallet_deduct",
                                  deduct_tokens_ok(wallets[u], amount), u, amount,
                                  use_reward_first, wallets[u])
        /\ UNCHANGED <<transactions, registrations, tournaments, initiating, sessions>>

ServiceDeduct ==
    \E u \in Users, amount \in DebitAmounts :
        /\ response = NoResponse
        /\ IF ~service_deduct_ok(wallets[u], amount)
           THEN UNCHANGED <<wallets, transactions>>
           ELSE /\ wallets' = [wallets EXCEPT ![u] = deduct_tokens(@, amount, FALSE)]
                /\ transactions' =
                       Append(transactions,
                              service_deduct_tx(u, wallets[u], amount,
                                                "tournament_entry", "none"))
        /\ response' = DebitReply("service_deduct",
                                  service_deduct_ok(wallets[u], amount), u, amount,
                                  FALSE, wallets[u])
        /\ UNCHANGED <<registrations, tournaments, initiating, sessions>>

InitDebit ==
    /\ \E v \in 0..MaxAmount, r \in 0..MaxAmount :
          wallets = [u \in Users |-> IF u = "u1" THEN NewWallet(v, r)
                                                ELSE NewWallet(0, 0)]
    /\ transactions = <<>>
    /\ registrations = <<>>
    /\ tournaments = InitTournaments
    /\ response = NoResponse
    /\ initiating = {}
    /\ sessions = [s \in Sessions |-> Idle]

NextDebit == WalletDeduct \/ ServiceDeduct

SpecDebit == InitDebit /\ [][NextDebit]_vars

(***************************************************************************)
(* Settlement after the registration phase: each of the users came through *)
(* dev_login, and those in the registered set have registered for t1       *)
(* (POST /{tournament_id}/register, u1 before u2).                         *)
(***************************************************************************)
SettledTournament == "t1"

Entrants(registered) ==
    SelectSeq(<<"u1", "u2">>, LAMBDA u : u \in registered)

InitSettle ==
    \E registered \in SUBSET Users :
        LET entrants == Entrants(registered)
            fee == InitTournaments[SettledTournament].entry_fee
            funded == NewWallet(DevVirtualTokens, DevRewardTokens)
            paid == deduct_tokens(funded, fee, FALSE)
        IN  /\ wallets = [u \in Users |-> IF u \in registered THEN paid ELSE funded]
            /\ transactions =
                   [i \in 1..Len(entrants) |->
                       mark_completed(
                           [NewTransaction(entrants[i], "tournament_entry",
                                           "completed", fee)
                               EXCEPT !.tournament_id = SettledTournament,
                                      !.balance_before = Some(total_balance(funded)),
                                      !.balance_after = Some(total_balance(paid))])]
            /\ registrations =
                   [i \in 1..Len(entrants) |->
                       [NewRegistration(entrants[i], SettledTournament, fee,
                                        "confirmed")
                           EXCEPT !.transaction_id = Some(i)]]
            /\ tournaments =
                   [InitTournaments EXCEPT
                       ![SettledTournament].current_participants = Len(entrants)]
            /\ response = NoResponse
            /\ initiating = {}
            /\ sessions = [s \in Sessions |-> Idle]

Settle == \E t \in Tournaments, winners \in WinnerMaps :
              complete_tournament(t, winners)

SpecSettle == InitSettle /\ [][Settle]_vars

\* the same with the service method as the settlement
NextSettleService == Settle \/ DistributeRewards

SpecSettleService == InitSettle /\ [][NextSettleService]_vars

(***************************************************************************)
(* Transfers between wallets of any balances up to MaxTokens: the router's *)
(* handler (amount >= 1 by the request schema) and the service method      *)
(* (any integer amount), one request on each starting state.               *)
(***************************************************************************)
SmallBalances == 0..MaxTokens

TransferAny ==
    \E sender \in Users, recipient \in Users, amount \in 1..(MaxTokens + 1),
       token_type \in TokenTypes :
        /\ response = NoResponse
        /\ transfer_tokens(sender, recipient, amount, token_type)

ServiceTransfer ==
    \E sender \in Users, recipient \in Users, amount \in -1..(MaxTokens + 1),
       token_type \in TokenTypes :
        /\ response = NoResponse
        /\ service_transfer_tokens(sender, recipient, amount, token_type)

InitTransfer ==
    /\ wallets \in [Users -> {NewWallet(v, r) : v \in SmallBalances,
                                                r \in SmallBalances}]
    /\ transactions = <<>>
    /\ registrations = <<>>
    /\ tournaments = InitTournaments
    /\ response = NoResponse
    /\ initiating = {}
    /\ sessions = [s \in Sessions |-> Idle]

NextTransfer == TransferAny \/ ServiceTransfer

SpecTransfer == InitTransfer /\ [][NextTransfer]_vars

(***************************************************************************)
(* Registration requests side by side (routers/tournaments.py, POST        *)
(* /{tournament_id}/register).  Every request has its own session          *)
(* (database.py get_db) and database transaction; the engine runs at       *)
(* PostgreSQL's default isolation, READ COMMITTED: a SELECT sees what is   *)
(* committed when it runs, the session keeps the rows it loaded, flush     *)
(* writes the columns the handler changed with the values it computed, an  *)
(* UPDATE of a row another open transaction has written waits for that     *)
(* transaction to end, and commit publishes the writes.                    *)
(***************************************************************************)
\* line 151-164: SELECT the tournament, evaluate is_registration_open
LoadTournament(s) ==
    \E u \in Users, t \in Tournaments, inWindow \in BOOLEAN :
        /\ sessions[s].pc = "idle"
        /\ sessions' = [sessions EXCEPT ![s] =
              [@ EXCEPT !.pc = IF is_registration_open(tournaments[t], inWindow)
                               THEN "check_existing" ELSE "done",
                        !.user = u,
                        !.tournament = t,
                        !.result = IF is_registration_open(tournaments[t], inWindow)
                                   THEN "none" ELSE "registration_closed",
                        !.trn = tournaments[t]]]
        /\ UNCHANGED <<wallets, transactions, registrations, tournaments,
                       response, initiating>>

\* line 166-177: SELECT a non-cancelled registration of (user, tournament)
CheckExisting(s) ==
    /\ sessions[s].pc = "check_existing"
    /\ sessions' = [sessions EXCEPT ![s] =
          IF existing_registrations(registrations, @.user, @.tournament) # {}
          THEN [@ EXCEPT !.pc = "done", !.result = "already_registered"]
          ELSE [@ EXCEPT !.pc = "load_wallet"]]
    /\ UNCHANGED <<wallets, transactions, registrations, tournaments,
                   response, initiating>>

\* line 179-198: SELECT the wallet, check the balance
LoadWallet(s) ==
    /\ sessions[s].pc = "load_wallet"
    /\ LET wallet == wallets[sessions[s].user]
       IN  sessions' = [sessions EXCEPT ![s] =
              IF ~has_sufficient_balance(wallet, @.trn.entry_fee)
              THEN [@ EXCEPT !.pc = "done", !.result = "insufficient_balance"]
              ELSE [@ EXCEPT !.pc = "flush", !.loaded = wallet, !.wallet = wallet]]
    /\ UNCHANGED <<wallets, transactions, registrations, tournaments,
                   response, initiating>>

\* the rows session s has written and not yet committed
Locks(s) ==
    IF sessions[s].pc = "commit"
    THEN {sessions[s].user, sessions[s].tournament}
    ELSE {}

\* line 200-237: debit the loaded wallet, build the rows, flush
Flush(s) ==
    /\ sessions[s].pc = "flush"
    /\ \A o \in Sessions \ {s} :
          Locks(o) \cap {sessions[s].user, sessions[s].tournament} = {}
    /\ sessions' = [sessions EXCEPT ![s] =
          [@ EXCEPT !.pc = "commit",
                    !.wallet = deduct_tokens(@, sessions[s].trn.entry_fee, FALSE)]]
    /\ UNCHANGED <<wallets, transactions, registrations, tournaments,
                   response, initiating>>

\* UPDATE wallets SET <the columns whose value the session changed>
written_wallet(row, loaded, changed) ==
    [c \in DOMAIN row |-> IF changed[c] # loaded[c] THEN changed[c] ELSE row[c]]

\* line 240: commit
Commit(s) ==
    /\ sessions[s].pc = "commit"
    /\ LET me == sessions[s]
           u == me.user
           t == me.tournament
           fee == me.trn.entry_fee
           txid == Len(transactions) + 1
           transaction ==
               mark_completed(
                   [NewTransaction(u, "tournament_entry", "completed", fee)
                       EXCEPT !.tournament_id = t,
                              !.balance_before = Some(total_balance(me.loaded)),
                              !.balance_after = Some(total_balance(me.wallet))])
           registration ==
               [NewRegistration(u, t, fee, "confirmed")
                   EXCEPT !.transaction_id = Some(txid)]
       IN  /\ wallets' = [wallets EXCEPT
                             ![u] = written_wallet(@, me.loaded, me.wallet)]
           /\ tournaments' = [tournaments EXCEPT
                                 ![t].current_participants =
                                     me.trn.current_participants + 1]
           /\ registrations' = Append(registrations, registration)
           /\ transactions' = Append(transactions, transaction)
           /\ sessions' = [sessions EXCEPT ![s] =
                  [@ EXCEPT !.pc = "done", !.result = "ok"]]
    /\ UNCHANGED <<response, initiating>>

NextConc ==
    \E s \in Sessions :
        \/ LoadTournament(s)
        \/ CheckExisting(s)
        \/ LoadWallet(s)
        \/ Flush(s)
        \/ Commit(s)

SpecConc == Init /\ [][NextConc]_vars

\* the same two requests when both users came through dev_login, so that
\* either can pay either fee
InitFunded ==
    /\ wallets = [u \in Users |-> NewWallet(DevVirtualTokens, DevRewardTokens)]
    /\ transactions = <<>>
    /\ registrations = <<>>
    /\ tournaments = InitTournaments
    /\ response = NoResponse
    /\ initiating = {}
    /\ sessions = [s \in Sessions |-> Idle]

SpecCapacity == InitFunded /\ [][NextConc]_vars

(***************************************************************************)
(* routers/wallets.py: POST /transfer, statement by statement, for two     *)
(* requests in two sessions.  The handler reads the sender's wallet        *)
(* (line 98), checks class and balance, reads the recipient's wallet (line *)
(* 121), assigns reward_tokens on both loaded rows and commits (line 163): *)
(* the flush inside the commit writes each changed column with the value   *)
(* the session computed and inserts the two Transactions.                  *)
(***************************************************************************)
LoadSender(s) ==
    \E sender \in Users, recipient \in Users, amount \in TransferAmounts :
        LET sender_wallet == wallets[sender]
            answered(result) == [sessions[s] EXCEPT !.pc = "done", !.result = result,
                                                    !.user = sender,
                                                    !.recipient = recipient,
                                                    !.amount = amount]
        IN  /\ sessions[s].pc = "idle"
            /\ sessions' = [sessions EXCEPT ![s] =
                  IF recipient = sender THEN answered("self_transfer")
                  ELSE IF sender_wallet.reward_tokens < amount
                  THEN answered("insufficient_balance")
                  ELSE [@ EXCEPT !.pc = "load_recipient", !.user = sender,
                                 !.recipient = recipient, !.amount = amount,
                                 !.loaded = sender_wallet]]
            /\ UNCHANGED <<wallets, transactions, registrations, tournaments,
                           response, initiating>>

LoadRecipient(s) ==
    /\ sessions[s].pc = "load_recipient"
    /\ sessions' = [sessions EXCEPT ![s] =
          [@ EXCEPT !.pc = "commit_transfer",
                    !.loaded_recipient = wallets[sessions[s].recipient]]]
    /\ UNCHANGED <<wallets, transactions, registrations, tournaments,
                   response, initiating>>

CommitTransfer(s) ==
    /\ sessions[s].pc = "commit_transfer"
    /\ LET me == sessions[s]
           sender_after == [me.loaded EXCEPT !.reward_tokens = @ - me.amount]
           recipient_after ==
               [me.loaded_recipient EXCEPT !.reward_tokens = @ + me.amount]
           sender_transaction ==
               mark_completed(
                   [NewTransaction(me.user, "transfer_out", "completed", me.amount)
                       EXCEPT !.token_type = "reward",
                              !.recipient_user_id = me.recipient,
                              !.balance_before = Some(total_balance(me.loaded)),
                              !.balance_after = Some(total_balance(sender_after))])
           recipient_transaction ==
               mark_completed(
                   [NewTransaction(me.recipient, "transfer_in", "completed", me.amount)
                       EXCEPT !.token_type = "reward",
                              !.sender_user_id = me.user,
                              !.balance_before =
                                  Some(total_balance(me.loaded_recipient)),
                              !.balance_after =
                                  Some(total_balance(recipient_after))])
       IN  /\ wallets' =
                  [wallets EXCEPT
                      ![me.user] = written_wallet(@, me.loaded, sender_after),
                      ![me.recipient] =
                          written_wallet(@, me.loaded_recipient, recipient_after)]
           /\ transactions' = transactions \o
                                  <<sender_transaction, recipient_transaction>>
           /\ sessions' = [sessions EXCEPT ![s] =
                              [@ EXCEPT !.pc = "done", !.result = "ok"]]
    /\ UNCHANGED <<registrations, tournaments, response, initiating>>

NextConcTransfer ==
    \E s \in Sessions :
        \/ LoadSender(s)
        \/ LoadRecipient(s)
        \/ CommitTransfer(s)

SpecConcTransfer == InitFunded /\ [][NextConcTransfer]_vars

(***************************************************************************)
(* services/tournament_service.py: TournamentService.register_user by its  *)
(* two commits.  WalletService.deduct_tokens commits the debit and its     *)
(* Transaction (wallet_service.py line 101); register_user then adds the   *)
(* Registration, increments current_participants and commits again (line   *)
(* 116).  The second commit can fail (the database raises on the INSERT or *)
(* the connection is lost): the session rolls back what it had not         *)
(* committed, which is the Registration and the counter, not the debit.    *)
(***************************************************************************)
register_user_debit(s, u, t, inWindow) ==
    LET trn == tournaments[t]
        wallet == wallets[u]
        fee == trn.entry_fee
        txid == Len(transactions) + 1
        refused(result) ==
            /\ response' = RegisterReply("register_user", result, u, t, 0, inWindow)
            /\ UNCHANGED <<wallets, transactions, registrations, tournaments,
                           initiating, sessions>>
    IN  /\ sessions[s].pc = "idle"
        /\ IF ~is_registration_open(trn, inWindow)
           THEN refused("registration_closed")
           ELSE IF existing_registrations(registrations, u, t) # {}
           THEN refused("already_registered")
           ELSE IF ~service_deduct_ok(wallet, fee)
           THEN refused("insufficient_balance")
           ELSE /\ wallets' = [wallets EXCEPT ![u] = deduct_tokens(wallet, fee, FALSE)]
                /\ transactions' =
                       Append(transactions,
                              service_deduct_tx(u, wallet, fee, "tournament_entry", t))
                /\ WithinBounds(wallets', transactions')
                /\ sessions' = [sessions EXCEPT ![s] =
                       [@ EXCEPT !.pc = "insert", !.user = u, !.tournament = t,
                                 !.trn = trn, !.tx = txid]]
                /\ UNCHANGED <<registrations, tournaments, response, initiating>>

\* lines 102-119; committed is whether the second commit went through
register_user_insert(s, committed) ==
    LET me == sessions[s]
        u == me.user
        t == me.tournament
        registration ==
            [NewRegistration(u, t, me.trn.entry_fee, "confirmed")
                EXCEPT !.transaction_id = Some(me.tx)]
    IN  /\ me.pc = "insert"
        /\ sessions' = [sessions EXCEPT ![s] = Idle]
        /\ IF committed
           THEN /\ registrations' = Append(registrations, registration)
                \* the first commit expired the tournament: += reads the row again
                /\ tournaments' = [tournaments EXCEPT
                                      ![t].current_participants = @ + 1]
                /\ response' = RegisterReply("register_user", "ok", u, t, me.tx, TRUE)
           ELSE /\ response' = RegisterReply("register_user", "error", u, t, me.tx, TRUE)
                /\ UNCHANGED <<registrations, tournaments>>
        /\ UNCHANGED <<wallets, transactions, initiating>>

RegisterUserDebit ==
    \E s \in Sessions, u \in Users, t \in Tournaments, inWindow \in BOOLEAN :
        register_user_debit(s, u, t, inWindow)

RegisterUserInsert ==
    \E s \in Sessions, committed \in BOOLEAN : register_user_insert(s, committed)

NextService == RegisterUserDebit \/ RegisterUserInsert

SpecService == Init /\ [][NextService]_vars

(***************************************************************************)
(* routers/tournaments.py: POST /{tournament_id}/check-in, and             *)
(* Registration.check_in (models/registration.py).  No handler writes the  *)
(* statuses pending, cancelled, no_show or disqualified; the status column *)
(* holds any RegistrationStatus value, and the handlers that read it       *)
(* filter on it, so the stored row is taken as the handler's input: each   *)
(* user has a Registration for t1 of any status.  checked_in is true for a *)
(* checked_in row and false before check-in; a row that was cancelled,     *)
(* marked no_show or disqualified may carry either value.                  *)
(***************************************************************************)
RegistrationStatus ==
    {"pending", "confirmed", "cancelled", "checked_in", "no_show", "disqualified"}

\* Registration.check_in
Registration_check_in(registration) ==
    [registration EXCEPT !.checked_in = TRUE, !.status = "checked_in"]

check_in(u, t) ==
    LET reg == first_registration(registrations, u, t)
        answered(result) ==
            /\ response' = Reply("check_in", result, u, t, 0)
            /\ UNCHANGED <<registrations>>
    IN  /\ IF reg = 0 THEN answered("not_found")
           ELSE IF registrations[reg].checked_in THEN answered("already_checked_in")
           ELSE /\ registrations' =
                       [registrations EXCEPT
                           ![reg] = Registration_check_in(registrations[reg])]
                /\ response' = Reply("check_in", "ok", u, t, 0)
        /\ UNCHANGED <<wallets, transactions, tournaments, initiating, sessions>>

CheckIn == \E u \in Users, t \in Tournaments : check_in(u, t)

StoredRegistrations ==
    {[NewRegistration(u, SettledTournament, InitTournaments[SettledTournament].entry_fee,
                      status)
         EXCEPT !.checked_in = flag] :
        u \in Users, status \in RegistrationStatus, flag \in BOOLEAN}

InitCheckIn ==
    /\ wallets = InitWallets
    /\ transactions = <<>>
    /\ registrations \in
           {regs \in StoredRegistrations \X StoredRegistrations :
               /\ regs[1].user_id = "u1"
               /\ regs[2].user_id = "u2"
               /\ \A i \in 1..2 :
                     /\ regs[i].status = "checked_in" => regs[i].checked_in
                     /\ regs[i].status \in {"pending", "confirmed"}
                           => ~regs[i].checked_in}
    /\ tournaments = InitTournaments
    /\ response = NoResponse
    /\ initiating = {}
    /\ sessions = [s \in Sessions |-> Idle]

SpecCheckIn == InitCheckIn /\ [][CheckIn]_vars

(***************************************************************************)
(* Claims                                                                  *)
(***************************************************************************)
CallbackOps == {"easypaisa_callback", "jazzcash_callback"}
CreditTypes == {"purchase", "tournament_reward", "transfer_in", "bonus"}
DebitTypes == {"tournament_entry", "transfer_out"}

\* C1: after any sequence of wallet operations, each run to completion, every
\* wallet has purchased (virtual) tokens >= 0 and earned (reward) tokens >= 0.
C1_BalancesNonNegative ==
    \A u \in Users : /\ wallets[u].virtual_tokens >= 0
                     /\ wallets[u].reward_tokens >= 0

\* the signed token amount of a Transaction: positive for a credit, negative
\* for a debit
SignedAmount(tx) ==
    IF tx.type \in DebitTypes THEN 0 - tx.token_amount ELSE tx.token_amount

SnapshotMatches(tx) ==
    /\ tx.balance_before # None
    /\ tx.balance_after # None
    /\ tx.balance_after[1] - tx.balance_before[1] = SignedAmount(tx)

\* C2: every completed credit or debit Transaction has
\* balance_after - balance_before equal to its signed token amount.
C2_CompletedSnapshotMatches ==
    \A id \in TxIds :
        (/\ transactions[id].status = "completed"
         /\ transactions[id].type \in CreditTypes \cup DebitTypes)
        => SnapshotMatches(transactions[id])

RegisterOps == {"register", "register_user"}

\* C4: a registration attempt by a user whose total balance is below the
\* entry fee changes no table, and when the tournament is open to the request
\* and the user is not yet registered it is answered insufficient_balance.
C4_InsufficientRegistrationRejected ==
    [][response'.op \in RegisterOps =>
          LET u == response'.user
              t == response'.tournament
          IN  total_balance(wallets[u]) < tournaments[t].entry_fee
              => /\ UNCHANGED <<wallets, transactions, registrations, tournaments>>
                 /\ response'.result # "ok"
                 /\ (/\ is_registration_open(tournaments[t], response'.in_window)
                     /\ \A i \in RegIds :
                           ~(/\ registrations[i].user_id = u
                             /\ registrations[i].tournament_id = t
                             /\ registrations[i].status # "cancelled"))
                    => response'.result = "insufficient_balance"
      ]_vars

C4_Witness ==
    /\ response.op \in RegisterOps
    /\ response.result = "insufficient_balance"
    /\ total_balance(wallets[response.user])
           < tournaments[response.tournament].entry_fee
    /\ transactions # <<>>

\* the non-cancelled Registration rows of a (user, tournament) pair
ActiveRegistrations(u, t) ==
    {i \in RegIds : /\ registrations[i].user_id = u
                    /\ registrations[i].tournament_id = t
                    /\ registrations[i].status # "cancelled"}

\* C5: each (user, tournament) pair has at most one Registration whose status
\* is not cancelled.
C5_OneActiveRegistration ==
    \A u \in Users, t \in Tournaments :
        Cardinality(ActiveRegistrations(u, t)) <= 1

C5_Witness ==
    /\ response.op \in RegisterOps
    /\ response.result = "already_registered"
    /\ Cardinality(ActiveRegistrations(response.user, response.tournament)) = 1

DebitOps == {"wallet_deduct", "service_deduct"}

\* C8: a successful purchased-first debit of a, 0 < a <= p + e, on a wallet
\* with purchased p and earned e leaves purchased = max(0, p - a) and
\* earned = e - max(0, a - p); on (30, 20) a debit of 40 leaves (0, 10).
C8_PurchasedFirst ==
    (/\ response.op \in DebitOps
     /\ ~response.reward_first
     /\ response.amount > 0
     /\ response.amount <= total_balance(response.before[1]))
    => LET p == response.before[1].virtual_tokens
           e == response.before[1].reward_tokens
           a == response.amount
           w == wallets[response.user]
       IN  /\ w.virtual_tokens = Max(0, p - a)
           /\ w.reward_tokens = e - Max(0, a - p)
           /\ (p = 30 /\ e = 20 /\ a = 40)
              => (w.virtual_tokens = 0 /\ w.reward_tokens = 10)

C8_Witness ==
    /\ response.op = "wallet_deduct"
    /\ ~response.reward_first
    /\ response.amount = 40
    /\ response.before # None
    /\ response.before[1].virtual_tokens = 30
    /\ response.before[1].reward_tokens = 20
    /\ wallets[response.user].virtual_tokens = 0
    /\ wallets[response.user].reward_tokens = 10

\* C9: under either policy a successful debit lowers the total balance by
\* exactly the amount and leaves neither token class negative.
C9_DebitExact ==
    (response.op \in DebitOps /\ response.result = "ok")
    => LET w == wallets[response.user]
       IN  /\ total_balance(w) = total_balance(response.before[1]) - response.amount
           /\ w.virtual_tokens >= 0
           /\ w.reward_tokens >= 0

C9_Witness ==
    /\ response.op = "wallet_deduct"
    /\ response.result = "ok"
    /\ response.reward_first
    /\ response.before[1].virtual_tokens > 0
    /\ response.amount > response.before[1].reward_tokens
    /\ wallets[response.user].reward_tokens = 0
    /\ wallets[response.user].virtual_tokens < response.before[1].virtual_tokens

\* C10: a debit fails exactly when purchased + earned < amount, and a failed
\* debit changes neither the wallet (balances, total_tokens_spent) nor the
\* Transaction table.
C10_FailsIffInsufficient ==
    response.op \in DebitOps
    => /\ (response.result = "insufficient_balance")
              <=> (total_balance(response.before[1]) < response.amount)
       /\ response.result = "insufficient_balance"
              => /\ wallets[response.user] = response.before[1]
                 /\ transactions = <<>>

C10_Witness ==
    /\ response.op = "service_deduct"
    /\ response.result = "insufficient_balance"
    /\ total_balance(response.before[1]) > 0
    /\ total_balance(response.before[1]) + 1 = response.amount

\* the sessions that asked to register user u for tournament t and are done
Finished(u, t) ==
    {s \in Sessions : /\ sessions[s].pc = "done"
                      /\ sessions[s].user = u
                      /\ sessions[s].tournament = t}

\* C6: when two requests of one user for one open tournament have both been
\* answered (and the user could pay the fee), one was answered ok and the other
\* already_registered, and there is one Registration row, one entry-fee
\* Transaction and one more participant.
C6_OneOfTwoSucceeds ==
    \A u \in Users, t \in Tournaments :
        (/\ Finished(u, t) = Sessions
         /\ \A s \in Sessions : sessions[s].result # "registration_closed"
         /\ has_sufficient_balance(InitWallets[u], InitTournaments[t].entry_fee))
        => /\ \E s \in Sessions :
                 /\ sessions[s].result = "ok"
                 /\ \A o \in Sessions \ {s} : sessions[o].result = "already_registered"
           /\ Cardinality(ActiveRegistrations(u, t)) = 1
           /\ Cardinality({id \in TxIds :
                              /\ transactions[id].type = "tournament_entry"
                              /\ transactions[id].user_id = u
                              /\ transactions[id].tournament_id = t}) = 1
           /\ tournaments[t].current_participants
                  = InitTournaments[t].current_participants + 1

\* C7: while debits against one wallet run side by side, neither token class
\* is negative, in the committed wallet rows and in the values a request has
\* written and not yet committed.
C7_ConcurrentDebitsNonNegative ==
    /\ \A u \in Users : wallets[u].virtual_tokens >= 0 /\ wallets[u].reward_tokens >= 0
    /\ \A s \in Sessions :
          sessions[s].pc = "commit"
          => /\ sessions[s].wallet.virtual_tokens >= 0
             /\ sessions[s].wallet.reward_tokens >= 0

\* two entry-fee debits of one wallet, for different tournaments, both
\* committed, both computed from the same loaded balance
C7_Witness ==
    \E i \in TxIds, j \in TxIds :
        /\ i < j
        /\ transactions[i].user_id = transactions[j].user_id
        /\ transactions[i].tournament_id # transactions[j].tournament_id
        /\ transactions[i].type = "tournament_entry"
        /\ transactions[j].type = "tournament_entry"
        /\ transactions[i].balance_before = transactions[j].balance_before
        /\ \A s \in Sessions : sessions[s].pc = "done"

TransferOps == {"transfer", "service_transfer"}

\* C11: a transfer request for purchased (virtual) tokens is refused, whatever
\* the sender's balances and the amount, and it changes no wallet and writes
\* no Transaction.
C11_PurchasedTransferRejected ==
    [][(response'.op \in TransferOps /\ response'.token_type = "virtual")
          => /\ response'.result \notin {"ok"}
             /\ UNCHANGED <<wallets, transactions>>
      ]_vars

\* a virtual-token transfer the sender could have covered from either class
\* has been refused
C11_Witness ==
    /\ response.op \in TransferOps
    /\ response.token_type = "virtual"
    /\ response.result = "transfer_restricted"
    /\ response.recipient # response.user
    /\ wallets[response.user].virtual_tokens >= response.amount
    /\ wallets[response.user].reward_tokens >= response.amount
    /\ response.amount > 0

\* C12: a registration answered ok, for a tournament with entry fee f by a user
\* with purchased p >= f and earned e, leaves purchased = p - f and earned = e,
\* appends exactly one Transaction (completed tournament_entry of f tokens with
\* balance_before = p + e and balance_after = p + e - f), appends exactly one
\* Registration (confirmed, tokens_paid = f, linked to that Transaction) and
\* raises current_participants by one.
C12_RegistrationEffects ==
    [][(/\ response'.op \in RegisterOps
        /\ response'.result = "ok"
        /\ wallets[response'.user].virtual_tokens
               >= tournaments[response'.tournament].entry_fee)
       => LET u == response'.user
              t == response'.tournament
              f == tournaments[t].entry_fee
              p == wallets[u].virtual_tokens
              e == wallets[u].reward_tokens
              txid == Len(transactions) + 1
              regid == Len(registrations) + 1
          IN  /\ wallets'[u].virtual_tokens = p - f
              /\ wallets'[u].reward_tokens = e
              /\ \A o \in Users \ {u} : wallets'[o] = wallets[o]
              /\ Len(transactions') = txid
              /\ SubSeq(transactions', 1, Len(transactions)) = transactions
              /\ transactions'[txid].type = "tournament_entry"
              /\ transactions'[txid].status = "completed"
              /\ transactions'[txid].completed_at
              /\ transactions'[txid].user_id = u
              /\ transactions'[txid].tournament_id = t
              /\ transactions'[txid].token_amount = f
              /\ transactions'[txid].balance_before = Some(p + e)
              /\ transactions'[txid].balance_after = Some(p + e - f)
              /\ Len(registrations') = regid
              /\ SubSeq(registrations', 1, Len(registrations)) = registrations
              /\ registrations'[regid].user_id = u
              /\ registrations'[regid].tournament_id = t
              /\ registrations'[regid].status = "confirmed"
              /\ registrations'[regid].tokens_paid = f
              /\ registrations'[regid].transaction_id = Some(txid)
              /\ tournaments'[t].current_participants
                     = tournaments[t].current_participants + 1
      ]_vars

\* the test user (500 purchased, 100 earned) has registered for the tournament
\* with entry fee 50
C12_Witness ==
    /\ response.op \in RegisterOps
    /\ response.result = "ok"
    /\ response.tx \in TxIds
    /\ transactions[response.tx].token_amount = 50
    /\ transactions[response.tx].balance_before = Some(600)
    /\ transactions[response.tx].balance_after = Some(550)
    /\ wallets[response.user].virtual_tokens = 450
    /\ wallets[response.user].reward_tokens = 100
    /\ \E i \in RegIds : registrations[i].transaction_id = Some(response.tx)

\* what settling tournament t with the item winners[i] must do when its user
\* has a Registration for t and the placement's reward r is > 0: earned + r,
\* purchased unchanged, position and reward_earned set, tournament completed
SettledItem(t, winners, i) ==
    LET u == winners[i].user
        place == winners[i].place
        r == rewards(tournaments[t])[place]
        reg == first_registration(registrations, u, t)
    IN  /\ wallets'[u].reward_tokens = wallets[u].reward_tokens + r
        /\ wallets'[u].virtual_tokens = wallets[u].virtual_tokens
        /\ registrations'[reg].position = Some(place_number(place))
        /\ registrations'[reg].reward_earned = r
        /\ tournaments'[t].status = "completed"

RewardedItem(t, winners, i) ==
    /\ first_registration(registrations, winners[i].user, t) # 0
    /\ rewards(tournaments[t])[winners[i].place] > 0

TerminalStatuses == {"completed", "failed"}

IsPurchase(i) == i \in TxIds /\ transactions[i].type = "purchase"

\* C14: once a purchase Transaction's status is completed or failed, no step
\* (gateway callback with either code, or the return of its still-running
\* initiation request) changes the status again.
C14_TerminalStatusKept ==
    [][\A i \in TxIds :
          (IsPurchase(i) /\ transactions[i].status \in TerminalStatuses)
          => transactions'[i].status = transactions[i].status
      ]_vars

\* the step leaves purchase Transaction i completed and it was not before
\* (the row is new or had another status)
EntersCompleted(i) ==
    /\ i \in 1..Len(transactions')
    /\ transactions'[i].type = "purchase"
    /\ transactions'[i].status = "completed"
    /\ (i \in TxIds => transactions[i].status # "completed")

SuccessCallback(i) == \E op \in CallbackOps : gateway_callback(op, i, "success")

AnyCallback(i) == \E op \in CallbackOps, code \in CallbackCodes :
                     gateway_callback(op, i, code)

\* C15: a purchase Transaction enters status completed only from status
\* processing and only in the step of a gateway callback with the success
\* code; a callback naming a purchase Transaction that is still pending
\* leaves it not completed and leaves every wallet as it was.
C15_CompletedOnlyFromProcessing ==
    [][/\ \A i \in 1..Len(transactions') :
             EntersCompleted(i)
             => /\ i \in TxIds
                /\ transactions[i].status = "processing"
                /\ SuccessCallback(i)
        /\ \A j \in TxIds :
             (/\ IsPurchase(j)
              /\ transactions[j].status = "pending"
              /\ AnyCallback(j))
             => /\ transactions'[j].status # "completed"
                /\ wallets' = wallets
      ]_vars

\* a purchase Transaction that is pending, processing or failed (every row
\* POST /initiate wrote is one of these) never becomes completed: the
\* success-code callback raises in Wallet.add_virtual_tokens before its commit
InitiatedNeverCompleted ==
    [][\A i \in TxIds :
          (IsPurchase(i) /\ transactions[i].status \in {"pending", "processing", "failed"})
          => transactions'[i].status # "completed"
      ]_vars

\* the credit of purchase Transaction i, applied in this step to its owner
PurchaseCredited(i) ==
    LET t == transactions'[i]
        u == t.user_id
        pkr == IF t.amount_pkr = None THEN 0 ELSE t.amount_pkr[1]
    IN  /\ wallets'[u].virtual_tokens = wallets[u].virtual_tokens + t.token_amount
        /\ wallets'[u].reward_tokens = wallets[u].reward_tokens
        /\ wallets'[u].total_spent_pkr = wallets[u].total_spent_pkr + pkr
        /\ t.balance_after = Some(total_balance(wallets'[u]))
        /\ t.completed_at = TRUE

\* C16: every step that leaves a purchase Transaction completed which was not
\* completed before (a gateway callback, or any other step) also adds its
\* token_amount to the owner's purchased (virtual) tokens, leaves the earned
\* (reward) tokens, adds its amount_pkr to total_spent_pkr, sets
\* balance_after to the wallet's new total balance and sets completed_at.
C16_CompletedWithCredit ==
    [][\A i \in 1..Len(transactions') :
          EntersCompleted(i) => PurchaseCredited(i)
      ]_vars

Balances(ws) == [u \in Users |-> <<ws[u].virtual_tokens, ws[u].reward_tokens>>]

Statuses(txs) == [i \in 1..Len(txs) |-> txs[i].status]

\* C17: a gateway callback (Easypaisa or JazzCash) whose signature is missing
\* or invalid changes no Transaction status and no wallet balance.
C17_UnsignedCallbackRejected ==
    [][\A orderId \in TxIds \cup {0}, code \in CallbackCodes, sig \in Signatures :
          \/ ~verify_easypaisa_callback(sig) /\ easypaisa_callback(orderId, code, sig)
          \/ ~verify_jazzcash_callback(sig) /\ jazzcash_callback(orderId, code, sig)
          => /\ Statuses(transactions') = Statuses(transactions)
             /\ Balances(wallets') = Balances(wallets)
      ]_vars

EntryDebits == {i \in TxIds : /\ transactions[i].type = "tournament_entry"
                              /\ transactions[i].status = "completed"}

\* C18: in every committed state each entry-fee debit of a (user, tournament)
\* has its Registration (same user, tournament and fee, linked to the debit's
\* Transaction) and each tournament's current_participants counts those
\* registrations: the three effects appear together or not at all.
C18_RegistrationAtomic ==
    /\ \A i \in EntryDebits :
          \E r \in RegIds :
              /\ registrations[r].user_id = transactions[i].user_id
              /\ registrations[r].tournament_id = transactions[i].tournament_id
              /\ registrations[r].tokens_paid = transactions[i].token_amount
              /\ registrations[r].transaction_id = Some(i)
    /\ \A t \in Tournaments :
          tournaments[t].current_participants
              = InitTournaments[t].current_participants
                + Cardinality({i \in EntryDebits : transactions[i].tournament_id = t})

\* C19: when two entry-fee debits of one wallet, run side by side, have both
\* been answered ok, the wallet's total balance is its initial total less
\* the two fees.
C19_NoLostDebit ==
    \A u \in Users :
        (\A s \in Sessions : /\ sessions[s].pc = "done"
                             /\ sessions[s].result = "ok"
                             /\ sessions[s].user = u)
        => total_balance(wallets[u])
               = total_balance(InitWallets[u])
                 - sessions["s1"].trn.entry_fee - sessions["s2"].trn.entry_fee

\* the sum of SignedAmount over the completed Transactions of user u among
\* the first n rows
RECURSIVE LedgerSum(_, _, _)
LedgerSum(txs, u, n) ==
    IF n = 0 THEN 0
    ELSE LedgerSum(txs, u, n - 1)
         + (IF /\ txs[n].user_id = u
               /\ txs[n].status = "completed"
               /\ txs[n].type \in CreditTypes \cup DebitTypes
            THEN SignedAmount(txs[n]) ELSE 0)

ZeroStart == {u \in Users : total_balance(InitWallets[u]) = 0}

\* C20: for every user whose wallet started with zero balances, the wallet's
\* total balance equals the sum of token_amount over the user's completed
\* credit Transactions (purchase, tournament_reward, transfer_in, bonus) less
\* the sum over the completed debit Transactions (tournament_entry,
\* transfer_out).
C20_BalanceIsLedgerSum ==
    \A u \in ZeroStart :
        total_balance(wallets[u]) = LedgerSum(transactions, u, Len(transactions))

(***************************************************************************)
(* Settlement (SpecSettle, SpecSettleService).                             *)
(***************************************************************************)
RewardTxs(txs) == {i \in 1..Len(txs) : txs[i].type = "tournament_reward"}

\* C21: a settlement request (POST /tournaments/{id}/complete or
\* TournamentService.distribute_rewards) for a tournament whose status is
\* already completed changes no wallet balance and writes no further
\* tournament_reward Transaction.
C21_RewardsDistributedOnce ==
    [][\A t \in Tournaments :
          (/\ tournaments[t].status = "completed"
           /\ \/ \E winners \in WinnerMaps : complete_tournament(t, winners)
              \/ \E results \in ResultLists : distribute_rewards(t, results))
          => /\ Balances(wallets') = Balances(wallets)
             /\ RewardTxs(transactions') = RewardTxs(transactions)
      ]_vars

\* user u holds no Registration for tournament t other than cancelled ones
Unregistered(u, t) ==
    \A i \in RegIds :
        (registrations[i].user_id = u /\ registrations[i].tournament_id = t)
        => registrations[i].status = "cancelled"

\* C22: a settlement request whose placements all name users without a
\* non-cancelled Registration for the settled tournament changes no wallet
\* balance and writes no tournament_reward Transaction.
C22_RewardsOnlyToRegistered ==
    [][\A t \in Tournaments :
          (\/ \E winners \in WinnerMaps :
                 /\ \A i \in 1..Len(winners) : Unregistered(winners[i].user, t)
                 /\ complete_tournament(t, winners)
           \/ \E results \in ResultLists :
                 /\ \A i \in 1..Len(results) : Unregistered(results[i].user_id, t)
                 /\ distribute_rewards(t, results))
          => /\ Balances(wallets') = Balances(wallets)
             /\ RewardTxs(transactions') = RewardTxs(transactions)
      ]_vars

\* C23: a gateway callback whose order id names a Transaction of a kind other
\* than purchase (tournament_entry, tournament_reward, transfer, bonus)
\* changes no wallet balance and no Transaction.
C23_CallbackOnlyForPurchases ==
    [][\A i \in TxIds :
          (transactions[i].type # "purchase" /\ AnyCallback(i))
          => /\ Balances(wallets') = Balances(wallets)
             /\ transactions' = transactions
      ]_vars

\* the users holding a non-cancelled Registration for tournament t
Registered(t) ==
    {registrations[i].user_id :
        i \in {j \in RegIds : /\ registrations[j].tournament_id = t
                              /\ registrations[j].status # "cancelled"}}

\* C24: while registration requests of distinct users run side by side, the
\* number of users with a non-cancelled Registration for a tournament never
\* exceeds its max_participants.
C24_CapacityRespected ==
    \A t \in Tournaments :
        Cardinality(Registered(t)) <= tournaments[t].max_participants

\* the reward tokens the answered transfers of the sessions took from user u
\* (sent) and gave to user u (received)
Sent(u) ==
    (IF sessions["s1"].user = u /\ sessions["s1"].result = "ok"
     THEN sessions["s1"].amount ELSE 0)
    + (IF sessions["s2"].user = u /\ sessions["s2"].result = "ok"
       THEN sessions["s2"].amount ELSE 0)

Received(u) ==
    (IF sessions["s1"].recipient = u /\ sessions["s1"].result = "ok"
     THEN sessions["s1"].amount ELSE 0)
    + (IF sessions["s2"].recipient = u /\ sessions["s2"].result = "ok"
       THEN sessions["s2"].amount ELSE 0)

\* C25: when the transfers running side by side have all been answered, no
\* wallet's purchased (virtual) tokens have changed, the sum of the earned
\* (reward) tokens over all wallets is what it was, and each wallet's earned
\* tokens are the initial ones less every amount it sent in a successful
\* transfer plus every amount it received in one.
C25_TransfersConserve ==
    (\A s \in Sessions : sessions[s].pc = "done")
    => /\ \A u \in Users :
             /\ wallets[u].virtual_tokens = DevVirtualTokens
             /\ wallets[u].reward_tokens = DevRewardTokens - Sent(u) + Received(u)
       /\ wallets["u1"].reward_tokens + wallets["u2"].reward_tokens
              = 2 * DevRewardTokens

\* C26: a transfer request for earned (reward) tokens whose sender and
\* recipient are the same user is answered self_transfer on both transfer
\* paths, changes no wallet and writes no Transaction.
C26_SelfTransferRejected ==
    [][(/\ response'.op \in TransferOps
        /\ response'.token_type = "reward"
        /\ response'.recipient = response'.user)
          => /\ response'.result = "self_transfer"
             /\ UNCHANGED <<wallets, transactions>>
      ]_vars

\* C27: a transfer answered ok, of amount a from sender to recipient, appends
\* exactly two Transactions and changes no earlier one: a completed
\* transfer_out of the sender with recipient_user_id = recipient and a
\* completed transfer_in of the recipient with sender_user_id = sender, each
\* with token_amount = a and token_type reward.
C27_TransferWritesTwoRows ==
    [][(response'.op \in TransferOps /\ response'.result = "ok")
          => LET n == Len(transactions)
                 out == transactions'[n + 1]
                 in == transactions'[n + 2]
             IN  /\ Len(transactions') = n + 2
                 /\ SubSeq(transactions', 1, n) = transactions
                 /\ out.type = "transfer_out"
                 /\ out.user_id = response'.user
                 /\ out.recipient_user_id = response'.recipient
                 /\ in.type = "transfer_in"
                 /\ in.user_id = response'.recipient
                 /\ in.sender_user_id = response'.user
                 /\ \A tx \in {out, in} : /\ tx.status = "completed"
                                          /\ tx.token_amount = response'.amount
                                          /\ tx.token_type = "reward"
      ]_vars

\* a transfer of reward tokens between two users has been answered ok and
\* its two rows are written
C27_Witness ==
    /\ response.op \in TransferOps
    /\ response.result = "ok"
    /\ response.user # response.recipient
    /\ response.amount > 0
    /\ Len(transactions) = 2
    /\ transactions[1].type = "transfer_out"
    /\ transactions[2].type = "transfer_in"

\* among the rows this step appended there is exactly one completed
\* tournament_reward Transaction of user u, reward r and tournament t, and the
\* first Registration of (u, t) is linked to it
RewardRecorded(u, t, r) ==
    LET new == {k \in (Len(transactions) + 1)..Len(transactions') :
                   /\ transactions'[k].type = "tournament_reward"
                   /\ transactions'[k].user_id = u}
        reg == first_registration(registrations, u, t)
    IN  /\ Cardinality(new) = 1
        /\ \A k \in new :
              /\ transactions'[k].status = "completed"
              /\ transactions'[k].token_type = "reward"
              /\ transactions'[k].token_amount = r
              /\ transactions'[k].tournament_id = t
              /\ registrations'[reg].reward_transaction_id = Some(k)

\* C28: a settlement request that names registered users, each once, writes
\* for each placement with a reward r > 0 exactly one completed
\* tournament_reward Transaction of the winner (token_type reward,
\* token_amount r, tournament_id the settled tournament) and sets the winner's
\* Registration.reward_transaction_id to it; on the service path r is the
\* reward of the caller's result.
C28_RewardRecorded ==
    [][\A t \in Tournaments :
          /\ \A winners \in WinnerMaps :
                (/\ complete_tournament(t, winners)
                 /\ \A i, j \in 1..Len(winners) :
                       i # j => winners[i].user # winners[j].user)
                => \A i \in 1..Len(winners) :
                      RewardedItem(t, winners, i)
                      => RewardRecorded(winners[i].user, t,
                                        rewards(tournaments[t])[winners[i].place])
          /\ \A results \in ResultLists :
                (/\ distribute_rewards(t, results)
                 /\ \A i, j \in 1..Len(results) :
                       i # j => results[i].user_id # results[j].user_id)
                => \A i \in 1..Len(results) :
                      (/\ first_registration(registrations, results[i].user_id, t) # 0
                       /\ results[i].reward > 0)
                      => RewardRecorded(results[i].user_id, t, results[i].reward)
      ]_vars

TerminalRegistrationStatuses == {"cancelled", "no_show", "disqualified"}

FinancialFields == {"token_amount", "balance_before", "balance_after"}

ProcessFields == {"status", "completed_at", "notes"}

\* Transaction row a agrees with row b on every column outside the set fields
SameExcept(a, b, fields) ==
    \A c \in DOMAIN a \ fields : a[c] = b[c]

====
